---- MODULE Spec2Model ----
(***************************************************************************)
(* Latest-arrival journey search of src/journey_finder.py: the reverse     *)
(* connection scan, the journey extraction that walks its result, and the  *)
(* loop that collects up to num_journeys journeys by tightening the        *)
(* arrival time.  One query of JourneyFinder.__find_list_of_journeys is    *)
(* one behaviour; a raised Python exception ends it in pc = "error".       *)
(***************************************************************************)
EXTENDS Integers, Sequences, FiniteSets, TLC

\* ------------------------------------------------------------------ bounds
MaxTime == 1          \* connection times and requested arrival: 0..MaxTime
MaxTripLen == 3       \* connections of the long trip
MaxDuration == 1      \* footpath durations: 0..MaxDuration
MaxJourneys == 2      \* num_journeys: 0..MaxJourneys
MaxLegs == 6          \* legs appended by one extraction before it is cut off

DefaultJourneys == 5  \* num_journeys of find_journeys
Scale == 1000         \* a probability p is the integer p * Scale
DefaultThreshold == 700  \* confidence_threshold=0.7 of find_journeys

Stops == {"A", "B", "C", "D"}
TransferStops == {"A", "B", "D"}
Times == 0..MaxTime
Durations == 0..MaxDuration
ConfTimes == {0, 60}  \* leg times and requested arrival of the scored journeys
Delays == {0, 30, 60} \* predicted delays

\* ------------------------------------------------------------ Python values
None == "None"
Walking == "walking"
NoTime == 0 - (24 * 3600)      \* None in a time field: no time is that low

Entry(tr, st, ss, at, as) ==
    [transport |-> tr, start_time |-> st, start_stop |-> ss,
     arrival_time |-> at, arrival_stop |-> as]

\* the one dict every stop shares after dict.fromkeys; total_seconds_init = 0
EmptyEntry == Entry(None, 0, None, NoTime, None)

\* pd.to_timedelta('HH:MM:SS').total_seconds()
TotalSeconds(str) == str.h * 3600 + str.m * 60 + str.s

\* pd.to_datetime(t, unit='s').strftime('%H:%M:%S'): the time of day, the date dropped
Strftime(t) ==
    LET d == t % (24 * 3600)
    IN  [h |-> d \div 3600, m |-> (d % 3600) \div 60, s |-> d % 60]

\* ------------------------------------------------------------------- state
VARIABLES
    timetable,            \* self.timetable: rows in input order
    footpaths,            \* self.footpaths: set of rows (stop_id_a, stop_id_b, duration)
    source_stop_id,
    destination_stop_id,
    requested,            \* the arrival time the caller asked for ('HH:MM:SS')
    num_journeys,
    arrival_time,         \* the arrival time of the current scan ('HH:MM:SS')
    journeys,
    possible,
    S, T,
    rss,                  \* rows of timetable_rss the scan has not visited yet
    ideal_journey,        \* the extraction's list, as keys of S (its dicts are S's dicts)
    mode_of_transport,
    ideal_connection,     \* key of S whose dict ideal_connection is
    previous_connection,
    journey,              \* what scan plus extraction returned
    pc,
    error,
    confidence_threshold, \* find_journeys: confidence_threshold, in thousandths
    delay_predictions,    \* what delay_predictor.predict returned for the last journey
    journey_confidences,
    result                \* the list find_journeys returns

inputs == <<timetable, footpaths, source_stop_id, destination_stop_id, requested, num_journeys>>
loopvars == <<arrival_time, journeys, possible>>
scanvars == <<S, T, rss>>
extractvars == <<ideal_journey, mode_of_transport, ideal_connection, previous_connection>>
confvars == <<confidence_threshold, delay_predictions, journey_confidences, result>>
vars == <<inputs, loopvars, scanvars, extractvars, journey, pc, error, confvars>>

\* ------------------------------------------------------------- the scan
\* timetable.sort_values(by='arr_time'): numpy's quicksort is an insertion sort on
\* tables this small, so rows with equal arr_time keep their input order
RECURSIVE InsertRow(_, _)
InsertRow(sorted, row) ==
    IF sorted = <<>> THEN <<row>>
    ELSE IF sorted[Len(sorted)].arr_time <= row.arr_time THEN Append(sorted, row)
    ELSE Append(InsertRow(SubSeq(sorted, 1, Len(sorted) - 1), row), sorted[Len(sorted)])

RECURSIVE SortByArrTime(_)
SortByArrTime(rows) ==
    IF rows = <<>> THEN <<>>
    ELSE InsertRow(SortByArrTime(SubSeq(rows, 1, Len(rows) - 1)), rows[Len(rows)])

Reverse(seq) == [i \in 1..Len(seq) |-> seq[Len(seq) + 1 - i]]

StopIds(tt, fps) ==
    {tt[i].dep_stop : i \in 1..Len(tt)} \cup {tt[i].arr_stop : i \in 1..Len(tt)}
        \cup {fp.stop_id_a : fp \in fps}

TripIds(tt) == {tt[i].trip_id : i \in 1..Len(tt)}

\* S after lines 118-132: every stop the shared empty dict, the destination its own
InitialS(tt, fps, dest, deadline) ==
    [s \in StopIds(tt, fps) \cup {dest} |->
        IF s = dest THEN Entry(None, deadline, dest, NoTime, None) ELSE EmptyEntry]

\* lines 145-153 with the two stop columns exchanged: the footpaths whose stop_id_b is
\* the destination seed their stop_id_a
SeedFootpathsFromA(S0, fps, dest, deadline) ==
    LET seeds == {fp \in fps : fp.stop_id_b = dest}
        seeded == {fp.stop_id_a : fp \in seeds}
    IN  [s \in DOMAIN S0 \cup seeded |->
            IF s \in seeded
            THEN LET fp == CHOOSE f \in seeds : f.stop_id_a = s
                 IN  Entry(Walking, deadline - fp.duration, s, deadline, dest)
            ELSE S0[s]]

\* lines 145-153: the walking entries of the footpaths whose stop_id_a is the destination
SeedFootpaths(S0, fps, dest, deadline) ==
    LET seeds == {fp \in fps : fp.stop_id_a = dest}
        seeded == {fp.stop_id_b : fp \in seeds}
    IN  [s \in DOMAIN S0 \cup seeded |->
            IF s \in seeded
            THEN LET fp == CHOOSE f \in seeds : f.stop_id_b = s
                 IN  Entry(Walking, deadline - fp.duration, s, deadline, dest)
            ELSE S0[s]]

\* lines 157-161: the rows up to c_0, latest arrival first
HasC0(sorted, deadline) == \E i \in 1..Len(sorted) : sorted[i].arr_time <= deadline

TimetableRss(sorted, deadline) ==
    LET last == CHOOSE i \in 1..Len(sorted) :
                    /\ sorted[i].arr_time <= deadline
                    /\ \A j \in 1..Len(sorted) : sorted[j].arr_time <= deadline => j <= i
        c_0 == sorted[last].connection_id
        pos == CHOOSE i \in 1..Len(sorted) :
                    /\ sorted[i].connection_id = c_0
                    /\ \A j \in 1..Len(sorted) : sorted[j].connection_id = c_0 => i <= j
    IN  Reverse(SubSeq(sorted, 1, pos))

\* line 174 without its last test: a row may replace a later departure
CanRelaxAnyDeparture(Sx, Tx, row) ==
    Tx[row.trip_id] \/ Sx[row.arr_stop].start_time >= row.arr_time

\* line 174
CanRelax(Sx, Tx, row) ==
    /\ (Tx[row.trip_id] \/ Sx[row.arr_stop].start_time >= row.arr_time)
    /\ Sx[row.dep_stop].start_time < row.dep_time

\* lines 178-184
Relaxed(Sx, row) ==
    [Sx EXCEPT ![row.dep_stop] =
        Entry(row.trip_id, row.dep_time, row.dep_stop, row.arr_time, row.arr_stop)]

\* lines 186-194: the footpaths whose stop_id_a is the departure stop
BackFootpaths(fps, row) == {fp \in fps : fp.stop_id_a = row.dep_stop}

\* lines 186-194 without the test of line 187: every footpath of the stop is written
BackPropagatedAlways(Sx, fps, row) ==
    LET better == BackFootpaths(fps, row)
        stops == {fp.stop_id_b : fp \in better}
    IN  [s \in DOMAIN Sx |->
            IF s \in stops
            THEN LET fp == CHOOSE f \in better : f.stop_id_b = s
                 IN  Entry(Walking, row.dep_time - fp.duration, s, row.dep_time, fp.stop_id_a)
            ELSE Sx[s]]

BackPropagated(Sx, fps, row) ==
    LET better == {fp \in BackFootpaths(fps, row) :
                      Sx[fp.stop_id_b].start_time < row.dep_time - fp.duration}
        stops == {fp.stop_id_b : fp \in better}
    IN  [s \in DOMAIN Sx |->
            IF s \in stops
            THEN LET fp == CHOOSE f \in better : f.stop_id_b = s
                 IN  Entry(Walking, row.dep_time - fp.duration, s, row.dep_time, fp.stop_id_a)
            ELSE Sx[s]]

\* -------------------------------------------------- __find_list_of_journeys
\* line 292: the while condition holds, the body calls __get_latest_arrival_journey
LoopEnter ==
    /\ pc = "loop"
    /\ Len(journeys) < num_journeys /\ possible # 0
    /\ pc' = "scan_init"
    /\ UNCHANGED <<inputs, confvars, loopvars, scanvars, extractvars, journey, error>>

\* lines 292, 305: the while condition fails, journeys is returned
LoopExit ==
    /\ pc = "loop"
    /\ ~(Len(journeys) < num_journeys /\ possible # 0)
    /\ pc' = "done"
    /\ UNCHANGED <<inputs, confvars, loopvars, scanvars, extractvars, journey, error>>

\* --------------------------------------------- __connection_scan_latest_arrival
Deadline == TotalSeconds(arrival_time)

\* lines 106-143: source == destination returns before the scan
ScanDegenerate ==
    /\ pc = "scan_init"
    /\ source_stop_id = destination_stop_id
    /\ S' = [InitialS(timetable, footpaths, destination_stop_id, Deadline)
                EXCEPT ![source_stop_id] =
                    Entry(None, Deadline, source_stop_id, Deadline, destination_stop_id)]
    /\ T' = [t \in TripIds(timetable) |-> FALSE]
    /\ rss' = <<>>
    /\ pc' = "extract"
    /\ UNCHANGED <<inputs, confvars, loopvars, extractvars, journey, error>>

\* lines 106-161: initialisation, footpath seeds and the rows to scan
ScanStart ==
    /\ pc = "scan_init"
    /\ source_stop_id # destination_stop_id
    /\ HasC0(SortByArrTime(timetable), Deadline)
    /\ S' = SeedFootpaths(InitialS(timetable, footpaths, destination_stop_id, Deadline),
                          footpaths, destination_stop_id, Deadline)
    /\ T' = [t \in TripIds(timetable) |-> FALSE]
    /\ rss' = TimetableRss(SortByArrTime(timetable), Deadline)
    /\ pc' = "scan"
    /\ UNCHANGED <<inputs, confvars, loopvars, extractvars, journey, error>>

\* line 161: c_0 is None, the index lookup [0] raises IndexError
ScanNoConnection ==
    /\ pc = "scan_init"
    /\ source_stop_id # destination_stop_id
    /\ ~HasC0(SortByArrTime(timetable), Deadline)
    /\ S' = SeedFootpaths(InitialS(timetable, footpaths, destination_stop_id, Deadline),
                          footpaths, destination_stop_id, Deadline)
    /\ T' = [t \in TripIds(timetable) |-> FALSE]
    /\ rss' = <<>>
    /\ pc' = "error"
    /\ error' = "IndexError"
    /\ UNCHANGED <<inputs, confvars, loopvars, extractvars, journey>>

\* where the for loop of line 165 goes after this row
AfterRow == IF Len(rss) = 1 THEN "extract" ELSE "scan"

\* line 169 reads S[source_stop_id]; lines 186-187 read S[fp['stop_id_b']]
ScanKeyError ==
    /\ pc = "scan"
    /\ LET row == Head(rss)
       IN  \/ source_stop_id \notin DOMAIN S
           \/ /\ source_stop_id \in DOMAIN S
              /\ S[source_stop_id].start_time < row.arr_time
              /\ CanRelax(S, T, row)
              /\ \E fp \in BackFootpaths(footpaths, row) : fp.stop_id_b \notin DOMAIN S
    /\ pc' = "error"
    /\ error' = "KeyError"
    /\ UNCHANGED <<inputs, confvars, loopvars, scanvars, extractvars, journey>>

\* lines 169-170: the source's departure is no earlier than this arrival
ScanBreak ==
    /\ pc = "scan"
    /\ source_stop_id \in DOMAIN S
    /\ S[source_stop_id].start_time >= Head(rss).arr_time
    /\ pc' = "extract"
    /\ rss' = <<>>
    /\ UNCHANGED <<inputs, confvars, loopvars, S, T, extractvars, journey, error>>

\* lines 174-194: the row becomes the latest departure of its dep_stop
ScanRelax ==
    /\ pc = "scan"
    /\ source_stop_id \in DOMAIN S
    /\ LET row == Head(rss)
       IN  /\ S[source_stop_id].start_time < row.arr_time
           /\ CanRelax(S, T, row)
           /\ \A fp \in BackFootpaths(footpaths, row) : fp.stop_id_b \in DOMAIN S
           /\ T' = [T EXCEPT ![row.trip_id] = TRUE]
           /\ S' = BackPropagated(Relaxed(S, row), footpaths, row)
    /\ rss' = Tail(rss)
    /\ pc' = AfterRow
    /\ UNCHANGED <<inputs, confvars, loopvars, extractvars, journey, error>>

\* line 174 is false: the row changes nothing
ScanSkip ==
    /\ pc = "scan"
    /\ source_stop_id \in DOMAIN S
    /\ S[source_stop_id].start_time < Head(rss).arr_time
    /\ ~CanRelax(S, T, Head(rss))
    /\ rss' = Tail(rss)
    /\ pc' = AfterRow
    /\ UNCHANGED <<inputs, confvars, loopvars, S, T, extractvars, journey, error>>

\* ------------------------------------------ __journey_extraction_latest_arrival
NoJourney == [kind |-> "None", legs |-> <<>>]
Legs(Sx, keys) == [i \in 1..Len(keys) |-> Sx[keys[i]]]

\* lines 229-230 and 248-249 left out: the open leg keeps the arrival of its first
\* connection
CloseLegNever(Sx, keys, prev) == Sx

\* lines 229-230 and 248-249: the open leg's dict, which is S's dict of that stop,
\* gets the arrival of the previous connection
CloseLeg(Sx, keys, prev) ==
    [Sx EXCEPT ![keys[Len(keys)]] =
        [@ EXCEPT !.arrival_time = Sx[prev].arrival_time,
                  !.arrival_stop = Sx[prev].arrival_stop]]

\* lines 211-213: source == destination returns the dict S[destination], not a list
ExtractDegenerate ==
    /\ pc = "extract"
    /\ source_stop_id = destination_stop_id
    /\ journey' = [kind |-> "dict", legs |-> <<S[destination_stop_id]>>]
    /\ pc' = "after"
    /\ UNCHANGED <<inputs, confvars, loopvars, scanvars, extractvars, error>>

\* lines 215, 253-255: no entry for the source, None is returned
ExtractNone ==
    /\ pc = "extract"
    /\ source_stop_id # destination_stop_id
    /\ S[source_stop_id].transport = None
    /\ journey' = NoJourney
    /\ pc' = "after"
    /\ UNCHANGED <<inputs, confvars, loopvars, scanvars, extractvars, error>>

\* lines 215-221
ExtractStart ==
    /\ pc = "extract"
    /\ source_stop_id # destination_stop_id
    /\ S[source_stop_id].transport # None
    /\ ideal_journey' = <<>>
    /\ mode_of_transport' = None
    /\ ideal_connection' = source_stop_id
    /\ previous_connection' = None
    /\ pc' = "extract_loop"
    /\ UNCHANGED <<inputs, confvars, loopvars, scanvars, journey, error>>

\* lines 223-245: one iteration of the while loop
ExtractStep ==
    /\ pc = "extract_loop"
    /\ S[ideal_connection].transport # None
    /\ Len(ideal_journey) < MaxLegs
    /\ IF S[ideal_connection].transport # mode_of_transport
       THEN /\ S' = IF S[ideal_connection].start_stop # source_stop_id
                    THEN CloseLeg(S, ideal_journey, previous_connection)
                    ELSE S
            /\ ideal_journey' = Append(ideal_journey, ideal_connection)
            /\ mode_of_transport' = S[ideal_connection].transport
       ELSE UNCHANGED <<S, ideal_journey, mode_of_transport>>
    /\ previous_connection' = ideal_connection
    /\ ideal_connection' = S'[ideal_connection].arrival_stop
    /\ UNCHANGED <<inputs, confvars, loopvars, T, rss, journey, pc, error>>

\* the walk came back to a stop it left: the while loop of line 223 never ends and
\* ideal_journey grows without bound
ExtractDiverge ==
    /\ pc = "extract_loop"
    /\ S[ideal_connection].transport # None
    /\ Len(ideal_journey) >= MaxLegs
    /\ pc' = "error"
    /\ error' = "MemoryError"
    /\ UNCHANGED <<inputs, confvars, loopvars, scanvars, extractvars, journey>>

\* lines 247-251: the last leg is closed and the entry that ended the walk appended
ExtractEnd ==
    /\ pc = "extract_loop"
    /\ S[ideal_connection].transport = None
    /\ LET closed == IF S[ideal_connection].transport # mode_of_transport
                     THEN CloseLeg(S, ideal_journey, previous_connection)
                     ELSE S
       IN  /\ S' = closed
           /\ journey' = [kind |-> "list",
                          legs |-> Legs(closed, Append(ideal_journey, ideal_connection))]
    /\ ideal_journey' = <<>>
    /\ mode_of_transport' = None
    /\ ideal_connection' = None
    /\ previous_connection' = None
    /\ pc' = "after"
    /\ UNCHANGED <<inputs, confvars, loopvars, T, rss, error>>

\* ------------------------------------------ __find_list_of_journeys, lines 298-304
\* the last non-sentinel leg of a journey: journey[-2]
LastLeg(legs) == legs[Len(legs) - 1]

\* lines 298-300, 304: journey is None, and None[-2] raises TypeError
NoMoreJourneys ==
    /\ pc = "after"
    /\ journey.kind = "None"
    /\ possible' = 0
    /\ pc' = "error"
    /\ error' = "TypeError"
    /\ UNCHANGED <<inputs, confvars, arrival_time, journeys, scanvars, extractvars, journey>>

\* lines 301-304: the dict of the degenerate case is appended, and dict[-2] raises KeyError
AppendDict ==
    /\ pc = "after"
    /\ journey.kind = "dict"
    /\ journeys' = Append(journeys, journey.legs)
    /\ pc' = "error"
    /\ error' = "KeyError"
    /\ UNCHANGED <<inputs, confvars, arrival_time, possible, scanvars, extractvars, journey>>

\* lines 301-304: the journey is appended, the next scan must arrive a second earlier
AppendJourney ==
    /\ pc = "after"
    /\ journey.kind = "list"
    /\ journeys' = Append(journeys, journey.legs)
    /\ arrival_time' = Strftime(LastLeg(journey.legs).arrival_time - 1)
    /\ pc' = "loop"
    /\ UNCHANGED <<inputs, confvars, possible, scanvars, extractvars, journey, error>>

\* ------------------------------------------------------------------ inputs
Row(id, trip, dep, arr, dep_t, arr_t) ==
    [connection_id |-> id, trip_id |-> trip, dep_stop |-> dep, arr_stop |-> arr,
     dep_time |-> dep_t, arr_time |-> arr_t]

\* a trip of n connections: a vehicle run through n + 1 different stops, each
\* connection leaving where and when the one before arrived (dep_time <= arr_time)
TripRows(trip, n, stops) ==
    {[i \in 1..n |-> Row(0, trip, x[1][i], x[1][i + 1], x[2][i], x[2][i + 1])] :
        x \in {y \in [1..n + 1 -> stops] \X [1..n + 1 -> Times] :
                  /\ \A i, j \in 1..n + 1 : y[1][i] = y[1][j] => i = j
                  /\ \A i \in 1..n : y[2][i] <= y[2][i + 1]}}

\* the rows of a table in every order, connection_id the place in the table
Tables(rows) ==
    {[i \in 1..Len(rows) |-> [rows[p[i]] EXCEPT !.connection_id = i]] :
        p \in {q \in [1..Len(rows) -> 1..Len(rows)] :
                  \A i, j \in 1..Len(rows) : q[i] = q[j] => i = j}}

Footpath(a, b, d) == [stop_id_a |-> a, stop_id_b |-> b, duration |-> d]

\* no footpath or one, between two different stops
FootpathSets(stops) ==
    {{}} \cup {{Footpath(x[1], x[2], x[3])} :
                  x \in {y \in stops \X stops \X Durations : y[1] # y[2]}}

\* one trip of up to MaxTripLen connections over the four stops
OneTripTables ==
    UNION {Tables(rows) : rows \in UNION {TripRows("T1", n, Stops) : n \in 0..MaxTripLen}}

\* two trips of one connection each, over three stops
TwoTripTables ==
    UNION {Tables(r1 \o r2) :
              <<r1, r2>> \in TripRows("T1", 1, TransferStops) \X TripRows("T2", 1, TransferStops)}

\* the timetable and the footpath of the worked example: stops A to D, trips T1 to T3
ExampleTable ==
    << Row(1, "T1", "A", "B", 28800, 29400),
       Row(2, "T1", "B", "C", 29400, 30000),
       Row(3, "T2", "A", "C", 29100, 30300),
       Row(4, "T3", "A", "D", 28500, 31200) >>

ExampleFootpaths == {Footpath("C", "D", 60)}

\* the same footpath stored in both directions
ExampleFootpathsBothWays == {Footpath("C", "D", 60), Footpath("D", "C", 60)}

\* find_journeys has not scored anything yet; confidence_threshold=0.7 (line 38)
IdleConfidence ==
    /\ confidence_threshold = DefaultThreshold
    /\ delay_predictions = <<>>
    /\ journey_confidences = <<>>
    /\ result = <<>>

IdleLoop ==
    /\ arrival_time = requested
    /\ journeys = <<>>
    /\ possible = 1
    /\ S = <<>> /\ T = <<>> /\ rss = <<>>
    /\ ideal_journey = <<>>
    /\ mode_of_transport = None
    /\ ideal_connection = None
    /\ previous_connection = None
    /\ journey = [kind |-> "unset", legs |-> <<>>]
    /\ pc = "loop"
    /\ error = None
    /\ IdleConfidence

InitOneTrip ==
    /\ timetable \in OneTripTables
    /\ footpaths \in FootpathSets(Stops)
    /\ source_stop_id = "A"
    /\ destination_stop_id = "D"
    /\ requested \in {Strftime(t) : t \in Times}
    /\ num_journeys \in 0..MaxJourneys
    /\ IdleLoop

InitTwoTrips ==
    /\ timetable \in TwoTripTables
    /\ footpaths \in FootpathSets(TransferStops)
    /\ source_stop_id = "A"
    /\ destination_stop_id = "D"
    /\ requested \in {Strftime(t) : t \in Times}
    /\ num_journeys \in 0..MaxJourneys
    /\ IdleLoop

\* source == destination
InitSameStop ==
    /\ timetable \in UNION {Tables(rows) : rows \in TripRows("T1", 1, Stops)}
    /\ footpaths \in FootpathSets(Stops)
    /\ source_stop_id = "A"
    /\ destination_stop_id = "A"
    /\ requested \in {Strftime(t) : t \in Times}
    /\ num_journeys \in 0..MaxJourneys
    /\ IdleLoop

\* find_journeys asks for num_journeys=5 (line 62)
InitExample ==
    /\ timetable = ExampleTable
    /\ footpaths \in {ExampleFootpaths, ExampleFootpathsBothWays}
    /\ source_stop_id = "A"
    /\ \/ destination_stop_id = "D" /\ requested \in {Strftime(31200), Strftime(30000)}
       \/ destination_stop_id = "A" /\ requested = Strftime(50000)
    /\ num_journeys = DefaultJourneys
    /\ IdleLoop

\* a footpath stored from a stop to itself
SelfLoops(stops) == {{Footpath(x, x, d)} : x \in stops, d \in Durations}

\* one connection and a stored self-loop
InitSelfLoop ==
    /\ timetable \in UNION {Tables(rows) : rows \in TripRows("T1", 1, Stops)}
    /\ footpaths \in SelfLoops(Stops)
    /\ source_stop_id = "A"
    /\ destination_stop_id = "D"
    /\ requested \in {Strftime(t) : t \in Times}
    /\ num_journeys \in 0..MaxJourneys
    /\ IdleLoop

\* two footpaths in a row, A walks to B and B to C, and a connection to the
\* destination from B and from C, late enough for both walks; a third connection
\* arrives at A, which makes A a stop of the timetable (line 109)
TwoWalksTables ==
    UNION {Tables(<<Row(0, "T1", "B", "D", 1, MaxTime + 1),
                    Row(0, "T2", "C", "D", t, MaxTime + 1),
                    Row(0, "T3", "D", "A", MaxTime + 1, MaxTime + 1)>>) :
              t \in 1..MaxTime + 1}

InitTwoWalks ==
    /\ timetable \in TwoWalksTables
    /\ footpaths \in {{Footpath("B", "A", d[1]), Footpath("C", "B", d[2])} :
                          d \in Durations \X Durations}
    /\ source_stop_id = "A"
    /\ destination_stop_id = "D"
    /\ requested = Strftime(MaxTime + 1)
    /\ num_journeys \in 0..MaxJourneys
    /\ IdleLoop

Init ==
    \/ InitOneTrip \/ InitTwoTrips \/ InitSameStop \/ InitExample
    \/ InitSelfLoop \/ InitTwoWalks

Next ==
    \/ LoopEnter \/ LoopExit
    \/ ScanDegenerate \/ ScanStart \/ ScanNoConnection
    \/ ScanKeyError \/ ScanBreak \/ ScanRelax \/ ScanSkip
    \/ ExtractDegenerate \/ ExtractNone \/ ExtractStart
    \/ ExtractStep \/ ExtractDiverge \/ ExtractEnd
    \/ NoMoreJourneys \/ AppendDict \/ AppendJourney

Spec == Init /\ [][Next]_vars

\* ----------------------------------------- confidence_calculation.py, find_journeys
\* 1 - exp(-x / scale) in thousandths, for 2 * x / scale = 1, 2, 3, ...; it rounds
\* to 1000 beyond the table
ExponTable ==
    <<393, 632, 777, 865, 918, 950, 970, 982, 989, 993, 996, 998, 998, 999, 999>>

\* sps.expon.cdf(x, scale=scale), scale > 0: 0 for x <= 0
ExponCdf(x, scale) ==
    IF x <= 0 THEN 0
    ELSE LET h == (2 * x) \div scale
         IN  IF h = 0 THEN 0 ELSE IF h > Len(ExponTable) THEN Scale ELSE ExponTable[h]

\* lines 4-7, with the guard of line 5 one off: a zero delay is not certain
transfer_confidence_positive(arrival_delay, time_budget) ==
    IF arrival_delay < 0 THEN Scale
    ELSE IF arrival_delay = 0 THEN 0
    ELSE ExponCdf(time_budget, arrival_delay)

\* lines 4-7
transfer_confidence_simple(arrival_delay, time_budget) ==
    IF arrival_delay <= 0 THEN Scale
    ELSE ExponCdf(time_budget, arrival_delay)

\* lines 9-13
time_from_string(datetime_str) ==
    datetime_str.h * 3600 + datetime_str.m * 60 + datetime_str.s

\* lines 15-18 without the wrap of line 17: the plain difference
time_diff_plain(time1, time2) == time1 - time2

\* lines 15-18
time_diff(time1, time2) ==
    IF time1 - time2 < 0 THEN time1 - time2 + 24 * 3600 ELSE time1 - time2

\* confidence *= p, both in thousandths
Times1000(confidence, p) == (confidence * p) \div Scale

\* lines 21-24: the composer's locals; arrival_time_last None is NoTime
ComposerStart ==
    [arrival_time_last |-> NoTime, last_arrival_delay |-> 0,
     walking_time |-> 0, confidence |-> Scale]

\* lines 29-41: one iteration of the for loop
ComposeLeg(st, leg, delay) ==
    IF leg.transport = Walking
    THEN [st EXCEPT !.walking_time = @ + time_diff(leg.arrival_time, leg.start_time)]
    ELSE [arrival_time_last |-> leg.arrival_time,
          last_arrival_delay |-> delay,
          walking_time |-> 0,
          confidence |->
              IF st.arrival_time_last # NoTime
              THEN Times1000(st.confidence,
                       transfer_confidence_simple(st.last_arrival_delay,
                           time_diff(leg.start_time, st.arrival_time_last) - st.walking_time))
              ELSE st.confidence]

\* line 28: zip(journey[0:-1], arrival_delay_predictions) ends with the shorter one
Zipped(legs, delays) ==
    IF Len(legs) - 1 <= Len(delays) THEN Len(legs) - 1 ELSE Len(delays)

RECURSIVE ComposeLegs(_, _, _, _)
ComposeLegs(st, legs, delays, i) ==
    IF i > Zipped(legs, delays) THEN st
    ELSE ComposeLegs(ComposeLeg(st, legs[i], delays[i]), legs, delays, i + 1)

\* lines 20-50
journey_confidence_on_arrival_delay_predictions(legs, delays, journey_arrival_datetime) ==
    LET st == ComposeLegs(ComposerStart, legs, delays, 1)
    IN  IF st.arrival_time_last # NoTime
        THEN Times1000(st.confidence,
                 transfer_confidence_simple(st.last_arrival_delay,
                     time_diff(time_from_string(journey_arrival_datetime),
                               st.arrival_time_last) - st.walking_time))
        ELSE st.confidence

\* delay_predictor.predict(stations_ids, timestamps) for n legs (line 73): a list of
\* predicted delays in seconds, one per (station, timestamp) group the predictor's
\* join kept (delay_prediction.py, lines 30-45), so of any length up to n
RECURSIVE DelayLists(_)
DelayLists(n) ==
    IF n = 0 THEN {<<>>}
    ELSE DelayLists(n - 1) \cup
         {Append(d, x) : d \in {e \in DelayLists(n - 1) : Len(e) = n - 1}, x \in Delays}

\* line 86, the threshold test passing only above the threshold
KeptAbove(confidence, threshold) == confidence > threshold

\* line 86: if confidence >= confidence_threshold
Kept(confidence, threshold) == confidence >= threshold

\* lines 84-87: the list comprehension over zip(journeys, journey_confidences)
RECURSIVE Filtered(_, _, _, _)
Filtered(js, confs, threshold, i) ==
    IF i > Len(js) \/ i > Len(confs) THEN <<>>
    ELSE (IF Kept(confs[i], threshold)
          THEN <<[journey |-> js[i], confidence |-> confs[i]]>>
          ELSE <<>>) \o Filtered(js, confs, threshold, i + 1)

\* lines 66-80: one iteration of `for journey in journeys`
ScoreJourney ==
    /\ pc = "score"
    /\ Len(journey_confidences) < Len(journeys)
    /\ LET legs == journeys[Len(journey_confidences) + 1]
       IN  \E delays \in DelayLists(Len(legs) - 1) :
               /\ delay_predictions' = delays
               /\ journey_confidences' =
                      Append(journey_confidences,
                             journey_confidence_on_arrival_delay_predictions(
                                 legs, delays, requested))
    /\ UNCHANGED <<inputs, loopvars, scanvars, extractvars, journey, pc, error,
                   confidence_threshold, result>>

\* lines 84-87
ReturnFiltered ==
    /\ pc = "score"
    /\ Len(journey_confidences) = Len(journeys)
    /\ result' = Filtered(journeys, journey_confidences, confidence_threshold, 1)
    /\ pc' = "returned"
    /\ UNCHANGED <<inputs, loopvars, scanvars, extractvars, journey, error,
                   confidence_threshold, delay_predictions, journey_confidences>>

\* ---- the journeys find_journeys scores: what __find_list_of_journeys returned
Leg(tr, st, at) == Entry(tr, st, "A", at, "B")
Sentinel(st) == Entry(None, st, "D", NoTime, None)
LegTimes == ConfTimes \X ConfTimes

OneLegJourneys ==
    {<<Leg(tr, x[1], x[2]), Sentinel(x[2])>> : tr \in {Walking, "T1"}, x \in LegTimes}

TwoLegJourneys ==
    {<<Leg(tr[1], x[1], x[2]), Leg(tr[2], y[1], y[2]), Sentinel(y[2])>> :
        tr \in {Walking, "T1"} \X {Walking, "T2"}, x \in LegTimes, y \in LegTimes}

\* a ride, a walk to another platform, a ride
ThreeLegJourneys ==
    {<<Leg("T1", 0, x), Leg(Walking, w[1], w[2]), Leg("T2", y[1], y[2]), Sentinel(y[2])>> :
        x \in ConfTimes, w \in LegTimes, y \in LegTimes}

\* num_journeys=5 journeys (line 62): one of two short ones, the same walk a second
\* earlier each time, and one that varies
ScoredJourneys ==
    {<<j1>> \o [i \in 1..DefaultJourneys - 2 |-> <<Leg(Walking, 0, 60 - i), Sentinel(60 - i)>>]
            \o <<j2>> :
        j1 \in {<<Leg("T1", 0, 60), Sentinel(60)>>, <<Leg(Walking, 0, 60), Sentinel(60)>>},
        j2 \in OneLegJourneys \cup TwoLegJourneys \cup ThreeLegJourneys}

InitConfidence ==
    /\ timetable = <<>>
    /\ footpaths = {}
    /\ source_stop_id = "A"
    /\ destination_stop_id = "D"
    /\ requested \in {Strftime(t) : t \in ConfTimes}
    /\ num_journeys = DefaultJourneys
    /\ arrival_time = requested
    /\ journeys \in ScoredJourneys
    /\ possible = 1
    /\ S = <<>> /\ T = <<>> /\ rss = <<>>
    /\ ideal_journey = <<>>
    /\ mode_of_transport = None
    /\ ideal_connection = None
    /\ previous_connection = None
    /\ journey = [kind |-> "unset", legs |-> <<>>]
    /\ pc = "score"
    /\ error = None
    /\ confidence_threshold \in {0, DefaultThreshold, Scale}
    /\ delay_predictions = <<>>
    /\ journey_confidences = <<>>
    /\ result = <<>>

NextConfidence == ScoreJourney \/ ReturnFiltered

SpecConfidence == InitConfidence /\ [][NextConfidence]_vars

\* ------------------------------------------------- what a journey search may find
\* The journeys of the timetable, independently of the scan.  A footpath row is
\* walked the way the scan reads it: from stop_id_b to stop_id_a (lines 146-153,
\* 186-194).
WalkDurations(from, to) ==
    {fp.duration : fp \in {f \in footpaths : f.stop_id_b = from /\ f.stop_id_a = to}}

Connections == {timetable[i] : i \in 1..Len(timetable)}

\* c ends a journey: it arrives at the destination, or a walk from its arrival stop
\* does, by the deadline
ReachesDestination(c, deadline) ==
    \/ c.arr_stop = destination_stop_id /\ c.arr_time <= deadline
    \/ \E d \in WalkDurations(c.arr_stop, destination_stop_id) : c.arr_time + d <= deadline

\* c2 can be boarded after c: at the stop where c arrives, or after a walk from it
CanFollow(c, c2) ==
    \/ c.arr_stop = c2.dep_stop /\ c.arr_time <= c2.dep_time
    \/ \E d \in WalkDurations(c.arr_stop, c2.dep_stop) : c.arr_time + d <= c2.dep_time

RECURSIVE UsableFrom(_, _)
UsableFrom(usable, n) ==
    IF n = 0 THEN usable
    ELSE UsableFrom(usable \cup {c \in Connections : \E c2 \in usable : CanFollow(c, c2)},
                    n - 1)

\* the connections from which the destination is reached by the deadline
Usable(deadline) ==
    UsableFrom({c \in Connections : ReachesDestination(c, deadline)}, Len(timetable))

\* the times at which a journey to the destination can leave the source
Departures(deadline) ==
    {c.dep_time : c \in {u \in Usable(deadline) : u.dep_stop = source_stop_id}}
    \cup UNION {{c.dep_time - d : d \in WalkDurations(source_stop_id, c.dep_stop)} :
                   c \in Usable(deadline)}
    \cup {deadline - d : d \in WalkDurations(source_stop_id, destination_stop_id)}

Max(set) == CHOOSE x \in set : \A y \in set : y <= x

\* the scan has returned S and T to __get_latest_arrival_journey
ScanFinished == pc = "extract" /\ source_stop_id # destination_stop_id

\* no walk to the destination has to start before 00:00:00
WalksWithinDay == \A fp \in footpaths : fp.duration <= Deadline

\* C1: when the scan for (source, destination, deadline) has finished, S[source] is
\* empty (transport None) exactly when no journey reaches the destination by the
\* deadline, and otherwise S[source].start_time is the latest departure of such a journey.
C1_LatestDeparture ==
    (ScanFinished /\ WalksWithinDay) =>
        /\ (S[source_stop_id].transport = None) <=> (Departures(Deadline) = {})
        /\ Departures(Deadline) # {} =>
               S[source_stop_id].start_time = Max(Departures(Deadline))

\* ----------------------------------------------------------- journeys returned
\* __find_list_of_journeys has returned its list / has ended, by return or by raise
Returned == pc = "done"
Ended == pc \in {"done", "error"}

\* the scan plus extraction of this iteration has produced a list of legs
Produced == pc = "after" /\ journey.kind = "list"

\* journey[:-1]: the legs before the sentinel
NonSentinel(legs) == SubSeq(legs, 1, Len(legs) - 1)

\* C2: every journey of the returned list arrives, with its last non-sentinel leg,
\* no later than the arrival time the caller asked for.
C2_ArrivesByRequested ==
    Returned =>
        \A i \in 1..Len(journeys) :
            LastLeg(journeys[i]).arrival_time <= TotalSeconds(requested)

\* C3: in every journey that scan plus extraction produce, no non-sentinel leg arrives
\* before it starts, and none starts before the leg before it has arrived.
C3_LegsInTimeOrder ==
    Produced =>
        LET legs == NonSentinel(journey.legs)
        IN  /\ \A i \in 1..Len(legs) : legs[i].arrival_time >= legs[i].start_time
            /\ \A i \in 1..Len(legs) - 1 : legs[i + 1].start_time >= legs[i].arrival_time

\* C4: every journey the extraction produces starts at the source, ends with its last
\* non-sentinel leg at the destination, and has exactly one sentinel leg, its last:
\* transport None, start_stop the destination.
C4_SourceToDestination ==
    (Produced /\ WalksWithinDay) =>
        LET legs == journey.legs
            n == Len(legs)
        IN  /\ legs[1].start_stop = source_stop_id
            /\ legs[n - 1].arrival_stop = destination_stop_id
            /\ legs[n].transport = None
            /\ legs[n].start_stop = destination_stop_id
            /\ \A i \in 1..n - 1 : legs[i].transport # None

\* the query names two different stops, and it and the footpaths name only stops
\* that are keys of S
KnownStops ==
    /\ source_stop_id # destination_stop_id
    /\ source_stop_id \in StopIds(timetable, footpaths)
    /\ \A fp \in footpaths : fp.stop_id_b \in StopIds(timetable, footpaths)

\* C5: when no journey from the source reaches the destination by the requested
\* arrival time, while some connection arrives by then, the query ends without an
\* error and returns the empty list.
C5_EmptyListWhenInfeasible ==
    ( /\ KnownStops
      /\ HasC0(SortByArrTime(timetable), TotalSeconds(requested))
      /\ Departures(TotalSeconds(requested)) = {}
      /\ Ended )
    => Returned /\ journeys = <<>>

\* C6: when source and destination are the same stop, the query returns exactly one
\* journey, a single sentinel leg (transport None).
C6_SameStopOneSentinel ==
    (source_stop_id = destination_stop_id /\ num_journeys >= 1 /\ Ended)
    => /\ Returned
       /\ Len(journeys) = 1
       /\ Len(journeys[1]) = 1
       /\ journeys[1][1].transport = None

\* C7: on the example timetable with the footpath (C, D, 60), the query from A to D
\* by 31200 for five journeys returns first the ride on T3 from A to D arriving 31200,
\* second the ride on T1 from A to C followed by the walk from C to D arriving 30060,
\* and ends by returning.
C7_ExampleJourneys ==
    ( /\ timetable = ExampleTable /\ footpaths = ExampleFootpaths
      /\ source_stop_id = "A" /\ destination_stop_id = "D"
      /\ requested = Strftime(31200) /\ num_journeys = DefaultJourneys
      /\ Ended )
    => /\ Returned
       /\ Len(journeys) >= 2
       /\ NonSentinel(journeys[1]) = <<Entry("T3", 28500, "A", 31200, "D")>>
       /\ NonSentinel(journeys[2]) = <<Entry("T1", 28800, "A", 30000, "C"),
                                       Entry(Walking, 30000, "C", 30060, "D")>>

\* C8: each time a journey is collected and another scan follows, that scan's arrival
\* time is strictly earlier than the one of the scan before; and the journey collected
\* arrives strictly earlier than every journey collected before it.
C8_StrictlyEarlier ==
    [][ (pc = "after" /\ pc' = "loop") =>
            /\ Len(journeys') < num_journeys =>
                   TotalSeconds(arrival_time') < TotalSeconds(arrival_time)
            /\ \A i \in 1..Len(journeys) :
                   LastLeg(journey.legs).arrival_time < LastLeg(journeys[i]).arrival_time
      ]_vars

\* trip, boarding stop and boarding time of the last leg that is a vehicle's, <<>> if none
LastVehicle(legs) ==
    LET rides == {i \in 1..Len(legs) : legs[i].transport \notin {Walking, None}}
    IN  IF rides = {} THEN <<>>
        ELSE LET i == Max(rides)
             IN  <<legs[i].transport, legs[i].start_stop, legs[i].start_time>>

\* C9: any two journeys collected in one query are different, and two that ride a
\* vehicle differ in their last vehicle leg (its trip, boarding stop or boarding time),
\* also when a walk to the destination follows it.
C9_DistinctLastVehicle ==
    \A i, j \in 1..Len(journeys) :
        i < j => /\ journeys[i] # journeys[j]
                 /\ LastVehicle(journeys[i]) # <<>> =>
                        LastVehicle(journeys[i]) # LastVehicle(journeys[j])

\* C10: the loop scans only while fewer than num_journeys journeys are collected,
\* returns at most num_journeys journeys, and when a scan yields no journey the query
\* ends by returning the journeys collected so far.
C10_ReturnsAtMostK ==
    /\ pc = "scan_init" => Len(journeys) < num_journeys
    /\ Returned => Len(journeys) <= num_journeys
    /\ (Ended /\ journey.kind = "None") => Returned

\* ------------------------------------------------------- find_journeys returns
\* find_journeys has returned its list
Scored == pc = "returned"

\* the journeys whose confidence is at least the threshold
AtLeastThreshold ==
    {i \in 1..Len(journeys) : journey_confidences[i] >= confidence_threshold}

\* C11: find_journeys returns exactly the journeys whose confidence is at least the
\* threshold, in the order of the enumeration, each with its own confidence, and
\* every returned confidence lies between the threshold and 1.
C11_ThresholdFilter ==
    Scored =>
        /\ Len(journey_confidences) = Len(journeys)
        /\ Len(result) = Cardinality(AtLeastThreshold)
        /\ \A k \in 1..Len(result) :
               /\ \E i \in AtLeastThreshold :
                      /\ Cardinality({x \in AtLeastThreshold : x < i}) = k - 1
                      /\ result[k].journey = journeys[i]
                      /\ result[k].confidence = journey_confidences[i]
               /\ result[k].confidence >= confidence_threshold
               /\ result[k].confidence <= Scale

\* some journey is dropped, and one is returned with a confidence below 1
C11_Witness ==
    /\ Scored
    /\ confidence_threshold = DefaultThreshold
    /\ Len(result) < Len(journeys)
    /\ \E k \in 1..Len(result) : result[k].confidence < Scale

\* the journey scored last and its slack between the two rides of a three-leg journey
LastScored == journeys[Len(journey_confidences)]
RideSlack(legs) ==
    time_diff(legs[3].start_time, legs[1].arrival_time)
        - time_diff(legs[2].arrival_time, legs[2].start_time)

\* C12: when every predicted delay is 0, the confidence of the journey is 1, whatever
\* its legs, its slacks and the requested arrival time.
C12_ZeroDelayCertain ==
    (journey_confidences # <<>> /\ \A i \in DOMAIN delay_predictions : delay_predictions[i] = 0)
    => journey_confidences[Len(journey_confidences)] = Scale

\* a ride, a walk longer than the time to the next ride, a ride: all delays 0
C12_Witness ==
    /\ journey_confidences # <<>>
    /\ Len(LastScored) = 4
    /\ delay_predictions = <<0, 0, 0>>
    /\ RideSlack(LastScored) < 0
    /\ journey_confidences[Len(journey_confidences)] = Scale

\* C14: a journey of two rides for which the predictor returned fewer delays than
\* legs is not in the list find_journeys returns.
C14_WrongLengthOmitted ==
    ( /\ Scored
      /\ Len(LastScored) = 3
      /\ \A i \in 1..2 : LastScored[i].transport # Walking
      /\ Len(delay_predictions) # 2 )
    => \A k \in 1..Len(result) : result[k].journey # LastScored

\* ------------------------------------------------------ the scan as a function
\* lines 165-194 run to the end on the rows still to visit: the S the scan returns
RECURSIVE ScanRows(_, _, _)
ScanRows(Sx, Tx, rows) ==
    IF rows = <<>> THEN Sx
    ELSE LET row == Head(rows)
         IN  IF Sx[source_stop_id].start_time >= row.arr_time THEN Sx
             ELSE IF CanRelax(Sx, Tx, row)
                  THEN ScanRows(BackPropagated(Relaxed(Sx, row), footpaths, row),
                                [Tx EXCEPT ![row.trip_id] = TRUE], Tail(rows))
                  ELSE ScanRows(Sx, Tx, Tail(rows))

\* lines 105-195 on the timetable tt, the other arguments those of the query
ScanOf(tt) ==
    ScanRows(SeedFootpaths(InitialS(tt, footpaths, destination_stop_id, Deadline),
                           footpaths, destination_stop_id, Deadline),
             [t \in TripIds(tt) |-> FALSE],
             TimetableRss(SortByArrTime(tt), Deadline))

\* the rows of the timetable in another order, each with its connection_id
Reordered ==
    {[i \in 1..Len(timetable) |-> timetable[p[i]]] :
        p \in {q \in [1..Len(timetable) -> 1..Len(timetable)] :
                  \A i, j \in 1..Len(timetable) : q[i] = q[j] => i = j}}

\* how a journey starts: the trip or walk taken at the source and when
Boarding(Sx) == <<Sx[source_stop_id].transport, Sx[source_stop_id].start_time>>

\* C13: the scan of the same rows in any other row order gives the same start of the
\* journey (the same S[source]) as the scan of the timetable, for the same query.
C13_RowOrderIrrelevant ==
    (ScanFinished /\ KnownStops) =>
        \A tt \in Reordered : Boarding(ScanOf(tt)) = Boarding(S)

\* following S from stop s for at most n steps ends at the destination, and every
\* entry on the way starts no earlier than the entry before it arrives
RECURSIVE ChainReaches(_, _)
ChainReaches(s, n) ==
    IF s = destination_stop_id THEN TRUE
    ELSE IF n = 0 \/ S[s].transport = None THEN FALSE
    ELSE LET next == S[s].arrival_stop
         IN  /\ next \in DOMAIN S
             /\ S[next].start_time >= S[s].arrival_time
             /\ ChainReaches(next, n - 1)

\* C15: when the scan has finished, following arrival_stop from any stop whose entry
\* has a transport reaches the destination's entry within as many steps as there are
\* stops, each entry departing no earlier than the one before arrives, the last
\* arriving by the deadline (the start_time of the destination's entry).
C15_ChainsReachDestination ==
    (ScanFinished /\ KnownStops /\ WalksWithinDay) =>
        \A s \in DOMAIN S :
            S[s].transport # None => ChainReaches(s, Cardinality(DOMAIN S))

\* S of lines 118-132, before the footpaths of the destination are seeded
UnseededS == InitialS(timetable, footpaths, destination_stop_id, Deadline)

\* C16: during one scan no S[s].start_time ever decreases: not when the footpaths of
\* the destination are seeded into the initial S, and not when a row is relaxed and
\* back-propagated.
C16_StartTimeMonotone ==
    [][ /\ (pc = "scan_init" /\ pc' = "scan") =>
               \A s \in DOMAIN UnseededS : S'[s].start_time >= UnseededS[s].start_time
        /\ (pc = "scan" /\ pc' \in {"scan", "extract"}) =>
               \A s \in DOMAIN S : S'[s].start_time >= S[s].start_time
      ]_vars

\* C16 as amended: a relaxation with its back-propagation never lowers a start_time,
\* and seeding does not lower one below the initial S when every footpath of the
\* destination joins two different stops and is no longer than the deadline.
C16_MonotoneWithinDay ==
    [][ /\ ( /\ pc = "scan_init" /\ pc' = "scan"
             /\ \A fp \in footpaths :
                    fp.stop_id_a = destination_stop_id =>
                        (fp.stop_id_b # destination_stop_id /\ fp.duration <= Deadline) ) =>
               \A s \in DOMAIN UnseededS : S'[s].start_time >= UnseededS[s].start_time
        /\ (pc = "scan" /\ pc' \in {"scan", "extract"}) =>
               \A s \in DOMAIN S : S'[s].start_time >= S[s].start_time
      ]_vars

\* the scan has relaxed a row and back-propagated it over a footpath
C16_Witness ==
    /\ ScanFinished
    /\ \E s \in DOMAIN S :
           /\ S[s].transport = Walking
           /\ S[s].arrival_stop # destination_stop_id
           /\ S[s].start_time > 0
           /\ S[S[s].arrival_stop].transport \notin {None, Walking}

\* the loop of lines 165-194 without the break of lines 169-170
RECURSIVE ScanEveryRow(_, _, _)
ScanEveryRow(Sx, Tx, rows) ==
    IF rows = <<>> THEN Sx
    ELSE LET row == Head(rows)
         IN  IF CanRelax(Sx, Tx, row)
             THEN ScanEveryRow(BackPropagated(Relaxed(Sx, row), footpaths, row),
                               [Tx EXCEPT ![row.trip_id] = TRUE], Tail(rows))
             ELSE ScanEveryRow(Sx, Tx, Tail(rows))

\* the scan of the query that visits every row with arr_time <= deadline
WithoutBreak ==
    ScanEveryRow(SeedFootpaths(UnseededS, footpaths, destination_stop_id, Deadline),
                 [t \in TripIds(timetable) |-> FALSE],
                 TimetableRss(SortByArrTime(timetable), Deadline))

\* C17: the scan, which stops at the first row with S[source].start_time >= arr_time,
\* ends with the same S[source].start_time as the scan that visits every row with
\* arr_time <= deadline.
C17_BreakKeepsSource ==
    (ScanFinished /\ KnownStops) =>
        S[source_stop_id].start_time = WithoutBreak[source_stop_id].start_time

\* the scan stopped early: the rows it left out change S at another stop
C17_Witness ==
    /\ ScanFinished /\ KnownStops
    /\ S[source_stop_id].transport # None
    /\ S # WithoutBreak

\* C18: when no row of the (non-empty) timetable has arr_time <= deadline and the source is not
\* the destination, the scan returns: S is the initial state with the footpath
\* seeds of the destination, and T is False for every trip.
C18_NoConnectionReturnsSeeds ==
    [][ ( /\ pc = "scan_init"
          /\ source_stop_id # destination_stop_id
          /\ timetable # <<>>
          /\ ~HasC0(SortByArrTime(timetable), Deadline) ) =>
            /\ pc' = "extract"
            /\ S' = SeedFootpaths(UnseededS, footpaths, destination_stop_id, Deadline)
            /\ \A t \in DOMAIN T' : ~T'[t]
      ]_vars

\* the step that seeds S, and a step of the scan that changes S
SeedStep == pc = "scan_init" /\ pc' = "scan"
RelaxStep == pc = "scan" /\ S' # S

\* the walking entry of stop x for a walk of duration d ending at stop y at time t
WalkEntry(x, d, y, t) == Entry(Walking, t - d, x, t, y)

C20_ExtractionReadsOnly ==
    [][ (pc \in {"extract", "extract_loop"}) => (S' = S)
      ]_vars

\* ------------------------------------------------------ slack, leg by leg
\* the vehicle legs of a journey, the sentinel left out (line 28: journey[0:-1])
VehicleLegs(legs) == {i \in 1..Len(legs) - 1 : legs[i].transport # Walking}

\* the vehicle leg that follows leg i, or 0 when i is the last vehicle leg
NextVehicle(legs, i) ==
    LET later == {j \in VehicleLegs(legs) : j > i}
    IN  IF later = {} THEN 0 ELSE CHOOSE j \in later : \A k \in later : j <= k

\* the walking time of the legs i+1 .. j-1 (line 32)
RECURSIVE WalkingBetween(_, _, _)
WalkingBetween(legs, i, j) ==
    IF i + 1 >= j THEN 0
    ELSE time_diff(legs[j - 1].arrival_time, legs[j - 1].start_time)
             + WalkingBetween(legs, i, j - 1)

\* the slack after vehicle leg i: to the next vehicle's start (line 37), or to the
\* requested arrival when no vehicle follows (line 47), less the walking in between
SlackAfter(legs, i, journey_arrival_datetime) ==
    LET j == NextVehicle(legs, i)
    IN  IF j # 0
        THEN time_diff(legs[j].start_time, legs[i].arrival_time)
                 - WalkingBetween(legs, i, j)
        ELSE time_diff(time_from_string(journey_arrival_datetime), legs[i].arrival_time)
                 - WalkingBetween(legs, i, Len(legs))

\* some vehicle leg has a predicted delay above 0 and no slack after it
NoSlackAfterDelay(legs, delays, journey_arrival_datetime) ==
    \E i \in VehicleLegs(legs) :
        /\ i <= Len(delays)
        /\ delays[i] > 0
        /\ SlackAfter(legs, i, journey_arrival_datetime) <= 0

\* C21: a journey with a transfer, or a final on-time factor, of slack <= 0 after a
\* vehicle whose predicted delay is above 0 has confidence 0.
C21_NoSlackIsZero ==
    (journey_confidences # <<>> /\ NoSlackAfterDelay(LastScored, delay_predictions, requested))
    => journey_confidences[Len(journey_confidences)] = 0

\* the same, for the journeys scored with one predicted delay per leg
C21_FullBatch ==
    ( /\ journey_confidences # <<>>
      /\ Len(delay_predictions) = Len(LastScored) - 1
      /\ NoSlackAfterDelay(LastScored, delay_predictions, requested) )
    => journey_confidences[Len(journey_confidences)] = 0

\* ------------------------------------------------------ journeys around midnight
\* times of day on both sides of midnight, and the walks after the ride
DayLength == 24 * 3600
ClockTimes == {0, 300, DayLength - 300, DayLength - 60, DayLength - 1}
WalkTimes == {0, 120}

\* a ride from x to y and a walk of w seconds from y, on the clock of one day
MidnightJourneys ==
    {<<Leg("T1", x, y), Leg(Walking, y, (y + w) % DayLength), Sentinel((y + w) % DayLength)>> :
        x \in ClockTimes, y \in ClockTimes, w \in WalkTimes}

\* num_journeys=5 journeys (line 62), the last one a ride and a walk around midnight
InitMidnight ==
    /\ timetable = <<>>
    /\ footpaths = {}
    /\ source_stop_id = "A"
    /\ destination_stop_id = "D"
    /\ requested \in {Strftime(t) : t \in ClockTimes}
    /\ num_journeys = DefaultJourneys
    /\ arrival_time = requested
    /\ journeys \in
           {[i \in 1..DefaultJourneys - 1 |-> <<Leg(Walking, 0, 60 - i), Sentinel(60 - i)>>]
                \o <<j>> : j \in MidnightJourneys}
    /\ possible = 1
    /\ S = <<>> /\ T = <<>> /\ rss = <<>>
    /\ ideal_journey = <<>>
    /\ mode_of_transport = None
    /\ ideal_connection = None
    /\ previous_connection = None
    /\ journey = [kind |-> "unset", legs |-> <<>>]
    /\ pc = "score"
    /\ error = None
    /\ confidence_threshold = DefaultThreshold
    /\ delay_predictions = <<>>
    /\ journey_confidences = <<>>
    /\ result = <<>>

SpecMidnight == InitMidnight /\ [][NextConfidence]_vars

\* the pairs of times the composer takes the difference of for the journey scored
\* last: requested arrival and the ride's arrival (line 47), the walk's two ends
\* (line 32)
DiffPairs ==
    {<<time_from_string(requested), LastScored[1].arrival_time>>}
        \cup {<<LastScored[i].arrival_time, LastScored[i].start_time>> :
                 i \in 1..Len(LastScored) - 1}

\* the ride arrives at 23:59:00, the walk takes 120 s, the requested arrival is 00:05:00
AcrossMidnight ==
    /\ Len(journey_confidences) = DefaultJourneys
    /\ LastScored[1].arrival_time = DayLength - 60
    /\ time_diff(LastScored[2].arrival_time, LastScored[2].start_time) = 120
    /\ time_from_string(requested) = 300

\* C22: for times a, b of one day, time_diff(a, b) is in [0, 86400) and b + time_diff(a, b)
\* is a modulo 86400; time_diff(300, 86340) is 360, and a journey whose ride arrives at
\* 86340, followed by a walk of 120 s, has the final slack 240 against a requested arrival
\* of 300, which is the budget its confidence is computed with.
C22_ModularDiff ==
    Len(journey_confidences) = DefaultJourneys =>
        /\ \A p \in DiffPairs :
               /\ time_diff(p[1], p[2]) \in 0..(DayLength - 1)
               /\ (p[2] + time_diff(p[1], p[2])) % DayLength = p[1]
        /\ AcrossMidnight =>
               /\ time_diff(time_from_string(requested), LastScored[1].arrival_time) = 360
               /\ SlackAfter(LastScored, 1, requested) = 240
               /\ Len(delay_predictions) = 2 =>
                      journey_confidences[DefaultJourneys]
                          = transfer_confidence_simple(delay_predictions[1], 240)

\* the journey across midnight scored with a delay of 60 s for the ride: 1 - exp(-4)
C22_Witness ==
    /\ AcrossMidnight
    /\ Len(delay_predictions) = 2
    /\ delay_predictions[1] = 60
    /\ journey_confidences[DefaultJourneys] = 982

\* ------------------------------------------------------ the destination's entry
\* the inputs the scan is written for: walks take no negative time, no connection
\* arrives before it leaves
WellFormed ==
    /\ source_stop_id # destination_stop_id
    /\ \A fp \in footpaths : fp.duration >= 0
    /\ \A i \in 1..Len(timetable) : timetable[i].dep_time <= timetable[i].arr_time

\* C23: for origin # destination, footpath durations >= 0 and dep_time <= arr_time, in
\* every state of the scan after initialisation, and at its end, S[destination] has
\* transport None and start_time equal to the deadline.
C23_DestinationKept ==
    (pc \in {"scan", "extract"} /\ WellFormed) =>
        /\ S[destination_stop_id].transport = None
        /\ S[destination_stop_id].start_time = Deadline

\* ------------------------------------------------------ legs as runs of entries
\* the stops the extraction visits in Sx: from the source along arrival_stop to the
\* first entry without transport (lines 221-245), at most n steps
RECURSIVE Chain(_, _, _)
Chain(Sx, s, n) ==
    IF Sx[s].transport = None \/ n = 0 THEN <<s>>
    ELSE <<s>> \o Chain(Sx, Sx[s].arrival_stop, n - 1)

\* the last place of the run of equal transport that starts at place i of the chain
RunEnd(Sx, chain, i) ==
    CHOOSE j \in i..Len(chain) :
        /\ \A k \in i..j : Sx[chain[k]].transport = Sx[chain[i]].transport
        /\ j < Len(chain) => Sx[chain[j + 1]].transport # Sx[chain[i]].transport

\* one leg per run: the first entry with the arrival of the last (lines 229-230,
\* 248-249), and the entry without transport as it is (line 250)
RECURSIVE Collapsed(_, _, _)
Collapsed(Sx, chain, i) ==
    IF Sx[chain[i]].transport = None THEN <<Sx[chain[i]]>>
    ELSE LET e == RunEnd(Sx, chain, i)
         IN  <<[Sx[chain[i]] EXCEPT !.arrival_time = Sx[chain[e]].arrival_time,
                                    !.arrival_stop = Sx[chain[e]].arrival_stop]>>
                 \o Collapsed(Sx, chain, e + 1)

\* the extraction has returned a list of legs for the scan of the current deadline
Extracted == pc = "after" /\ journey.kind = "list"

\* the chain of the S that scan returned
ScanChain == Chain(ScanOf(timetable), source_stop_id, Cardinality(Stops))

\* C24: in a journey the extraction returns no two consecutive legs have the same
\* transport, and the legs are the maximal runs of entries of equal transport along
\* the chain of S: each leg starts as the first entry of its run and arrives where and
\* when the last entry of the run does.
C24_RunsCollapsed ==
    Extracted =>
        /\ \A i \in 1..Len(journey.legs) - 1 :
               journey.legs[i].transport # journey.legs[i + 1].transport
        /\ journey.legs = Collapsed(ScanOf(timetable), ScanChain, 1)

\* a returned journey with a leg over several connections of one trip and another leg
C24_Witness ==
    /\ Extracted
    /\ Len(journey.legs) >= 3
    /\ Len(ScanChain) > Len(journey.legs)
    /\ journey.legs[1].transport \notin {Walking, None}

====
